---- MODULE Spec2Model ----
(***************************************************************************)
(* Time & violation enforcement of the ProveIt student front end:          *)
(*   - useLockdown   (src/src/hooks/useLockdown.ts): violation monitor     *)
(*     with its fullscreen re-entry countdown;                             *)
(*   - QuizTimer     (src/unnamed/part_002): wall-clock deadline tracker.  *)
(* Time is the wall clock Date.now() in milliseconds.  The code reads the   *)
(* clock only through differences of timestamps, so the model keeps every  *)
(* timestamp relative to the present: `now` is the origin, and d ms pass   *)
(* by moving every stored timestamp d ms into the past (Pass).  Time       *)
(* passes in its own action, so any spacing between timer callbacks        *)
(* (jitter, throttling, a frozen page) is a behaviour of the model.        *)
(***************************************************************************)
EXTENDS Integers, Sequences, FiniteSets, TLC

\* ---------------------------------------------------------------- bounds
\* A countdown start older than 10 s + MaxOverrun ms is recorded as that old.
MaxOverrun == 2500
\* Number of user actions in a session: enterFullscreen() calls and recorded
\* violations.
MaxUserActions == 3
\* Number of times the QuizTimer effect runs (mount and re-runs).
MaxEffectRuns == 3
MaxCallsCounted == 2
\* Length of a QuizTimer session, from its construction (ms).
MaxSessionMs == 6000
\* Amounts of time that pass between two handlers (ms).
\* The view: manual submissions, failed requests, answer edits, session length.
MaxRequests == 2
MaxFailures == 1
MaxAnswerChanges == 1
MaxViewSessionMs == 10000
ViewClockSteps == {5000}
ViewLeads == {5000, 10000}
ClockSteps == {2500, 5000}
TimerClockSteps == {500, 1000}
\* QuizTimer props: the time limit, and the time left when it is constructed.
Durations == {1, 6}
MountLeads == {301500, 301000, 300500, 300000, 61000, 60500, 60000, 1500, 1000, 500, 0}

\* ------------------------------------------------------------- constants
WARNING_DISPLAY_MS == 5000
BLUR_SUPPRESS_AFTER_FS_EXIT_MS == 500
FULLSCREEN_REENTRY_SECONDS == 10
MAX_ENVIRONMENTAL_VIOLATIONS == 1
gracePeriodMs == 5000
FIVE_MINUTES_IN_SECONDS == 300
ONE_MINUTE_IN_SECONDS == 60
WARNING_DISPLAY_DURATION_MS == 5000
TIMER_INTERVAL_MS == 1000

INSTANT_SUBMIT_VIOLATIONS ==
  {"paste_attempt", "copy_attempt", "cut_attempt", "drop_attempt", "devtools_attempt"}
ENVIRONMENTAL_VIOLATIONS == {"fullscreen_exit", "tab_switch", "window_blur"}
ViolationTypes == INSTANT_SUBMIT_VIOLATIONS \cup ENVIRONMENTAL_VIOLATIONS

DEVTOOLS_KEYS == {"I", "J", "C", "K"}

WarnSubmitted == "Your quiz has been submitted."
WarnLeave == "Warning: leave again and your quiz will be auto-submitted."
NoWarning == "null"

\* number | null : <<>> is null, <<n>> is the number n.
Null == <<>>
Some(n) == <<n>>

Max(a, b) == IF a >= b THEN a ELSE b

\* Math.ceil(a / b) and Math.floor(a / b) for b > 0.
Ceil(a, b) == -((-a) \div b)
Floor(a, b) == a \div b

VARIABLES
  doc,       \* the browser: fullscreen element, pending requests and events
  hook,      \* the state of one useLockdown instance
  timer,     \* the state of one QuizTimer instance
  view       \* the state of the LockdownQuiz view that hosts them

vars == <<doc, hook, timer, view>>

\* Date.now(): the present is the origin of the timestamps.
now == 0
\* A timestamp far in the past (the refs' initial value 0 is 1970).
LongAgo == now - (FULLSCREEN_REENTRY_SECONDS * 1000 + MaxOverrun)
\* A fullscreen exit older than the blur suppression window is recorded as that old.
BeforeBlurWindow == now - BLUR_SUPPRESS_AFTER_FS_EXIT_MS

\* ------------------------------------------------------ useLockdown state
HookInit ==
  [ mounted              |-> TRUE,
    isMobileDevice       |-> FALSE,
    isFullscreen         |-> FALSE,
    violations           |-> <<>>,
    warning              |-> NoWarning,
    fullscreenCountdown  |-> Null,
    graceRef             |-> FALSE,
    violationCountRef    |-> 0,
    eventCountsRef       |-> [k \in ViolationTypes |-> 0],
    lastFsExitRef        |-> BeforeBlurWindow,
    countdownIntervalRef |-> FALSE,
    countdownStartRef    |-> LongAgo,
    autoSubmittedRef     |-> FALSE,
    internalDragRef      |-> FALSE,
    graceTimers          |-> <<>>,
    warningTimers        |-> <<>>,
    autoSubmitCalls      |-> 0 ]

DocInit ==
  [ fullscreenElement |-> FALSE,
    requested         |-> 0,
    pending           |-> 0,
    granted           |-> 0,
    fullscreenchange  |-> 0 ]

\* ------------------------------------------------- useLockdown callbacks
\* Faulty variant: the autoSubmittedRef guard is missing.
triggerAutoSubmitUnguarded(h) ==
  [h EXCEPT !.autoSubmittedRef = TRUE, !.autoSubmitCalls = @ + 1]

triggerAutoSubmit(h) ==
  IF h.autoSubmittedRef THEN h
  ELSE [h EXCEPT !.autoSubmittedRef = TRUE, !.autoSubmitCalls = @ + 1]

clearCountdown(h) ==
  [h EXCEPT !.countdownIntervalRef = FALSE,
            !.countdownStartRef = LongAgo,
            !.fullscreenCountdown = Null]

startCountdown(h, t) ==
  [clearCountdown(h) EXCEPT !.countdownStartRef = t,
                            !.fullscreenCountdown = Some(FULLSCREEN_REENTRY_SECONDS),
                            !.countdownIntervalRef = TRUE]

\* Faulty variant: Math.floor in place of Math.ceil.
countdownRemainingFloor(h, t) ==
  Max(0, Floor(FULLSCREEN_REENTRY_SECONDS * 1000 - (t - h.countdownStartRef), 1000))

\* remaining = Math.max(0, Math.ceil(FULLSCREEN_REENTRY_SECONDS - elapsed)),
\* elapsed = (Date.now() - countdownStartRef.current) / 1000
countdownRemaining(h, t) ==
  Max(0, Ceil(FULLSCREEN_REENTRY_SECONDS * 1000 - (t - h.countdownStartRef), 1000))

\* Faulty variant: `remaining < 0` in place of `remaining <= 0`.
countdownTickNeverExpires(h, t) ==
  LET r  == countdownRemaining(h, t)
      h1 == [h EXCEPT !.fullscreenCountdown = Some(r)]
  IN  IF r < 0 THEN triggerAutoSubmit(clearCountdown(h1)) ELSE h1

\* The setInterval callback of startCountdown.
countdownTick(h, t) ==
  LET r  == countdownRemaining(h, t)
      h1 == [h EXCEPT !.fullscreenCountdown = Some(r)]
  IN  IF r <= 0 THEN triggerAutoSubmit(clearCountdown(h1)) ELSE h1

\* Faulty variant: the instant-submit branch is missing (every kind counts as a strike).
addViolationNoInstant(h, type, t) ==
  IF h.graceRef THEN h
  ELSE
    LET c  == h.eventCountsRef[type] + 1
        h1 == [h EXCEPT !.eventCountsRef[type] = c,
                        !.violations = Append(@, [type |-> type, count |-> c])]
        h2 == [h1 EXCEPT !.violationCountRef = @ + 1]
    IN  IF h2.violationCountRef > MAX_ENVIRONMENTAL_VIOLATIONS
        THEN triggerAutoSubmit([h2 EXCEPT !.warning = WarnSubmitted])
        ELSE [h2 EXCEPT !.warning = WarnLeave,
                        !.warningTimers = Append(@, t + WARNING_DISPLAY_MS)]

\* Faulty variant: `>=` in place of `>` (no tolerated strike).
addViolationNoStrike(h, type, t) ==
  IF h.graceRef THEN h
  ELSE
    LET c  == h.eventCountsRef[type] + 1
        h1 == [h EXCEPT !.eventCountsRef[type] = c,
                        !.violations = Append(@, [type |-> type, count |-> c])]
    IN  IF type \in INSTANT_SUBMIT_VIOLATIONS
        THEN triggerAutoSubmit([h1 EXCEPT !.warning = WarnSubmitted])
        ELSE
          LET h2 == [h1 EXCEPT !.violationCountRef = @ + 1]
          IN  IF h2.violationCountRef >= MAX_ENVIRONMENTAL_VIOLATIONS
              THEN triggerAutoSubmit([h2 EXCEPT !.warning = WarnSubmitted])
              ELSE [h2 EXCEPT !.warning = WarnLeave,
                              !.warningTimers = Append(@, t + WARNING_DISPLAY_MS)]

\* Faulty variant: the per-kind count is read but not stored.
addViolationCountNotStored(h, type, t) ==
  IF h.graceRef THEN h
  ELSE
    LET c  == h.eventCountsRef[type] + 1
        h1 == [h EXCEPT !.violations = Append(@, [type |-> type, count |-> c])]
    IN  IF type \in INSTANT_SUBMIT_VIOLATIONS
        THEN triggerAutoSubmit([h1 EXCEPT !.warning = WarnSubmitted])
        ELSE
          LET h2 == [h1 EXCEPT !.violationCountRef = @ + 1]
          IN  IF h2.violationCountRef > MAX_ENVIRONMENTAL_VIOLATIONS
              THEN triggerAutoSubmit([h2 EXCEPT !.warning = WarnSubmitted])
              ELSE [h2 EXCEPT !.warning = WarnLeave,
                              !.warningTimers = Append(@, t + WARNING_DISPLAY_MS)]

\* Faulty variant: two strikes are tolerated.
addViolationTwoStrikes(h, type, t) ==
  IF h.graceRef THEN h
  ELSE
    LET c  == h.eventCountsRef[type] + 1
        h1 == [h EXCEPT !.eventCountsRef[type] = c,
                        !.violations = Append(@, [type |-> type, count |-> c])]
    IN  IF type \in INSTANT_SUBMIT_VIOLATIONS
        THEN triggerAutoSubmit([h1 EXCEPT !.warning = WarnSubmitted])
        ELSE
          LET h2 == [h1 EXCEPT !.violationCountRef = @ + 1]
          IN  IF h2.violationCountRef > MAX_ENVIRONMENTAL_VIOLATIONS + 1
              THEN triggerAutoSubmit([h2 EXCEPT !.warning = WarnSubmitted])
              ELSE [h2 EXCEPT !.warning = WarnLeave,
                              !.warningTimers = Append(@, t + WARNING_DISPLAY_MS)]

\* Faulty variant: events are also dropped once the submission was forced.
addViolationLatched(h, type, t) ==
  IF h.graceRef \/ h.autoSubmittedRef THEN h
  ELSE
    LET c  == h.eventCountsRef[type] + 1
        h1 == [h EXCEPT !.eventCountsRef[type] = c,
                        !.violations = Append(@, [type |-> type, count |-> c])]
    IN  IF type \in INSTANT_SUBMIT_VIOLATIONS
        THEN triggerAutoSubmit([h1 EXCEPT !.warning = WarnSubmitted])
        ELSE
          LET h2 == [h1 EXCEPT !.violationCountRef = @ + 1]
          IN  IF h2.violationCountRef > MAX_ENVIRONMENTAL_VIOLATIONS
              THEN triggerAutoSubmit([h2 EXCEPT !.warning = WarnSubmitted])
              ELSE [h2 EXCEPT !.warning = WarnLeave,
                              !.warningTimers = Append(@, t + WARNING_DISPLAY_MS)]

\* Faulty variant: the `if (graceRef.current) return` at the top is missing.
addViolationNoGrace(h, type, t) ==
  LET c  == h.eventCountsRef[type] + 1
      h1 == [h EXCEPT !.eventCountsRef[type] = c,
                      !.violations = Append(@, [type |-> type, count |-> c])]
  IN  IF type \in INSTANT_SUBMIT_VIOLATIONS
      THEN triggerAutoSubmit([h1 EXCEPT !.warning = WarnSubmitted])
      ELSE
        LET h2 == [h1 EXCEPT !.violationCountRef = @ + 1]
        IN  IF h2.violationCountRef > MAX_ENVIRONMENTAL_VIOLATIONS
            THEN triggerAutoSubmit([h2 EXCEPT !.warning = WarnSubmitted])
            ELSE [h2 EXCEPT !.warning = WarnLeave,
                            !.warningTimers = Append(@, t + WARNING_DISPLAY_MS)]

\* eventCountsRef.current[type] || 0
countOf(counts, type) == IF type \in DOMAIN counts THEN counts[type] ELSE 0

\* eventCountsRef.current[type] = c
countStored(counts, type, c) ==
  IF type \in DOMAIN counts THEN [counts EXCEPT ![type] = c] ELSE (type :> c) @@ counts

addViolation(h, type, t) ==
  IF h.graceRef THEN h
  ELSE
    LET c  == countOf(h.eventCountsRef, type) + 1
        h1 == [h EXCEPT !.eventCountsRef = countStored(@, type, c),
                        !.violations = Append(@, [type |-> type, count |-> c])]
    IN  IF type \in INSTANT_SUBMIT_VIOLATIONS
        THEN triggerAutoSubmit([h1 EXCEPT !.warning = WarnSubmitted])
        ELSE
          LET h2 == [h1 EXCEPT !.violationCountRef = @ + 1]
          IN  IF h2.violationCountRef > MAX_ENVIRONMENTAL_VIOLATIONS
              THEN triggerAutoSubmit([h2 EXCEPT !.warning = WarnSubmitted])
              ELSE [h2 EXCEPT !.warning = WarnLeave,
                              !.warningTimers = Append(@, t + WARNING_DISPLAY_MS)]

\* Faulty variant: a successful entry also resets the strike counter.
enterFullscreenResolvedResetsStrikes(h, t) ==
  [clearCountdown(h) EXCEPT !.isFullscreen = TRUE,
                            !.violationCountRef = 0,
                            !.graceRef = TRUE,
                            !.graceTimers = Append(@, t + gracePeriodMs)]

\* enterFullscreen after `await requestFullscreen()` resolved.
enterFullscreenResolved(h, t) ==
  [clearCountdown(h) EXCEPT !.isFullscreen = TRUE,
                            !.graceRef = TRUE,
                            !.graceTimers = Append(@, t + gracePeriodMs)]

\* Faulty variant: the catch block does not call setIsFullscreen(false).
enterFullscreenRejectedKeepsFullscreen(h, t) == startCountdown(h, t)

\* Faulty variant: the catch block does not start the countdown.
enterFullscreenRejectedNoCountdown(h, t) ==
  [h EXCEPT !.isFullscreen = FALSE]

\* enterFullscreen after `await requestFullscreen()` rejected.
enterFullscreenRejected(h, t) ==
  startCountdown([h EXCEPT !.isFullscreen = FALSE], t)

\* Faulty variant: every recorded fullscreen exit starts a countdown.
handleFullscreenChangeAlwaysCountdown(h, fs, t) ==
  LET h1 == [h EXCEPT !.isFullscreen = fs]
      h2 == IF ~fs /\ ~h1.graceRef
            THEN startCountdown(
                   addViolation([h1 EXCEPT !.lastFsExitRef = t], "fullscreen_exit", t), t)
            ELSE h1
  IN  IF fs THEN clearCountdown(h2) ELSE h2

\* Faulty variant: the `if (fs) clearCountdown()` at the end is missing.
handleFullscreenChangeNoClear(h, fs, t) ==
  LET h1 == [h EXCEPT !.isFullscreen = fs]
  IN  IF ~fs /\ ~h1.graceRef
      THEN LET h3 == addViolation([h1 EXCEPT !.lastFsExitRef = t], "fullscreen_exit", t)
           IN  IF h3.violationCountRef <= MAX_ENVIRONMENTAL_VIOLATIONS
               THEN startCountdown(h3, t)
               ELSE h3
      ELSE h1

handleFullscreenChange(h, fs, t) ==
  LET h1 == [h EXCEPT !.isFullscreen = fs]
      h2 == IF ~fs /\ ~h1.graceRef
            THEN LET h3 == addViolation([h1 EXCEPT !.lastFsExitRef = t], "fullscreen_exit", t)
                 IN  IF h3.violationCountRef <= MAX_ENVIRONMENTAL_VIOLATIONS
                     THEN startCountdown(h3, t)
                     ELSE h3
            ELSE h1
  IN  IF fs THEN clearCountdown(h2) ELSE h2

handleVisibilityChange(h, hidden, t) ==
  IF hidden /\ ~h.graceRef THEN addViolation(h, "tab_switch", t) ELSE h

\* Faulty variant: the suppression window after a fullscreen exit is missing.
handleBlurNoSuppress(h, t) ==
  IF h.graceRef THEN h ELSE addViolation(h, "window_blur", t)

handleBlur(h, t) ==
  IF h.graceRef THEN h
  ELSE IF t - h.lastFsExitRef < BLUR_SUPPRESS_AFTER_FS_EXIT_MS THEN h
  ELSE addViolation(h, "window_blur", t)

handlePaste(h, t) == addViolation(h, "paste_attempt", t)
handleCopy(h, t) == addViolation(h, "copy_attempt", t)
handleCut(h, t) == addViolation(h, "cut_attempt", t)

handleDragStart(h) == [h EXCEPT !.internalDragRef = TRUE]
handleDragEnd(h) == [h EXCEPT !.internalDragRef = FALSE]

\* Faulty variant: the internal-drag flag is not consulted.
handleDropAlwaysViolation(h, t) == addViolation(h, "drop_attempt", t)

handleDrop(h, t) ==
  IF h.internalDragRef THEN [h EXCEPT !.internalDragRef = FALSE]
  ELSE addViolation(h, "drop_attempt", t)

\* A key event: key is e.key, modKey is e.ctrlKey || e.metaKey.
Keys == {"F12", "I", "j", "c", "K", "u", "P", "a"}
ToUpper(k) ==
  CASE k = "j" -> "J" [] k = "c" -> "C" [] k = "u" -> "U" [] k = "a" -> "A" [] OTHER -> k
ToLower(k) ==
  CASE k = "I" -> "i" [] k = "K" -> "k" [] k = "P" -> "p" [] k = "F12" -> "f12" [] OTHER -> k

\* Faulty variant: the print shortcut is recorded as a violation.
handleKeydownPrintRecorded(h, key, modKey, shiftKey, t) ==
  IF key = "F12" THEN addViolation(h, "devtools_attempt", t)
  ELSE IF modKey /\ shiftKey /\ ToUpper(key) \in DEVTOOLS_KEYS
       THEN addViolation(h, "devtools_attempt", t)
  ELSE IF modKey /\ ToLower(key) = "u" THEN h
  ELSE IF modKey /\ ToLower(key) = "p" THEN addViolation(h, "devtools_attempt", t)
  ELSE h

handleKeydown(h, key, modKey, shiftKey, t) ==
  IF key = "F12" THEN addViolation(h, "devtools_attempt", t)
  ELSE IF modKey /\ shiftKey /\ ToUpper(key) \in DEVTOOLS_KEYS
       THEN addViolation(h, "devtools_attempt", t)
  ELSE IF modKey /\ ToLower(key) = "u" THEN h
  ELSE IF modKey /\ ToLower(key) = "p" THEN h
  ELSE h

handleContextMenu(h) == h

\* ------------------------------------------------------------- the clock

\* Sequence s without its i-th element.
RemoveAt(s, i) == SubSeq(s, 1, i - 1) \o SubSeq(s, i + 1, Len(s))

\* A due time after d ms: a timer that is overdue is due now.
DueAfter(due, d) == Max(due - d, now)

\* The hook's timestamps after d ms.
hookAfter(h, d) ==
  [h EXCEPT !.lastFsExitRef = Max(@ - d, BeforeBlurWindow),
            !.countdownStartRef = Max(@ - d, LongAgo),
            !.graceTimers = [i \in DOMAIN @ |-> DueAfter(@[i], d)],
            !.warningTimers = [i \in DOMAIN @ |-> DueAfter(@[i], d)]]

\* Work the browser does at once: a granted request's promise resolves and a
\* queued fullscreenchange event is dispatched before any time passes.
BrowserBusy == doc.granted > 0 \/ doc.fullscreenchange > 0

AdvanceClock ==
  /\ ~BrowserBusy
  /\ \E d \in ClockSteps : hook' = hookAfter(hook, d)
  /\ UNCHANGED <<doc, timer, view>>

\* ---------------------------------------------------- LockdownQuiz state
\* What one memoised handleSubmit sees: the loading and answers of the render
\* that created it, and violationsRef.current of that render's ref object.
Closure(loading, answers, trail) ==
  [loading |-> loading, answers |-> answers, trail |-> trail]

NoClosure == Closure(FALSE, 0, <<>>)

\* ------------------------------------------------------- Confirmation
CONFIRMATION_CLEAR_MS == 10000

\* The statuses a submission response carries.
Statuses == {"completed", "locked_out"}

\* No Confirmation is rendered.
NoConfirmation == [mounted |-> FALSE, status |-> "", clearTimer |-> Null]

\* sessionStorage.getItem('proveit_submit_status') || 'completed': the item is
\* null when absent, and an empty string is falsy too.
storedStatus(storage) ==
  IF storage = Null \/ storage = Some("") THEN "completed" ELSE storage[1]

\* Confirmation mounts: the useState initialiser reads the item once and the
\* effect arms the timeout that clears the session.
confirmationMount(storage, t) ==
  [mounted |-> TRUE, status |-> storedStatus(storage),
   clearTimer |-> Some(t + CONFIRMATION_CLEAR_MS)]

\* Faulty variant: every status but 'completed' counts as locked out.
isLockedOutUnlessCompleted(cf) == cf.status # "completed"

isLockedOut(cf) == cf.status = "locked_out"

\* The heading the Confirmation view renders.
LockedOutHeading == "Quiz Auto-Submitted"
CompleteHeading == "Submission Complete!"
heading(cf) == IF isLockedOut(cf) THEN LockedOutHeading ELSE CompleteHeading

\* handleSubmit after the response: the status is stored and
\* navigate('/complete') renders Confirmation unless it is rendered already.
responseStored(v, status, t) ==
  [v EXCEPT !.storage = Some(status),
            !.confirmation = IF @.mounted THEN @ ELSE confirmationMount(Some(status), t)]

\* A LockdownQuiz about to mount.
ViewInit ==
  [ mounted          |-> TRUE,
    committed        |-> FALSE,       \* the first render has been committed
    dirty            |-> TRUE,        \* a render is scheduled
    loading          |-> FALSE,
    error            |-> FALSE,
    answers          |-> 0,           \* the answers state, as a version number
    autosave         |-> FALSE,       \* sessionStorage holds 'proveit_autosave'
    rendered         |-> NoClosure,   \* handleSubmit of the last commit
    countdownClosure |-> NoClosure,   \* handleSubmit held by the countdown interval
    pendingClosures  |-> <<>>,        \* handleSubmit held by each pending enterFullscreen
    requests         |-> <<>>,        \* the submitQuiz calls made, in order
    inflight         |-> {},          \* the calls not yet answered
    failures         |-> 0,
    unmounted        |-> FALSE,       \* navigate('/complete') has replaced the view
    completed        |-> 0,           \* the call whose response navigated to /complete
    storage          |-> Null,        \* sessionStorage item 'proveit_submit_status'
    confirmation     |-> NoConfirmation ]

\* No LockdownQuiz is rendered.
ViewNone == [ViewInit EXCEPT !.mounted = FALSE, !.dirty = FALSE]

handleSubmit(v, c, forced, lockdownForced) ==
  IF c.loading THEN v
  ELSE [v EXCEPT !.loading = ~v.unmounted \/ @,
                 !.error = v.unmounted /\ @,
                 !.dirty = ~v.unmounted \/ @,
                 !.requests = Append(@, [ answers        |-> c.answers,
                                          lockdownEvents |-> c.trail,
                                          forced         |-> forced,
                                          lockdownForced |-> lockdownForced ]),
                 !.inflight = @ \cup {Len(v.requests) + 1}]

handleAutoSubmit(v, c) == handleSubmit(v, c, TRUE, TRUE)

handleTimeUp(v, c) == handleSubmit(v, c, TRUE, FALSE)

\* The hook's React state, whose change schedules a render of the view.
hookRendered(h) == <<h.isFullscreen, h.violations, h.warning, h.fullscreenCountdown>>

\* The view after a handler of the hook took the hook from h to h2: c is the
\* handleSubmit the handler reaches through onAutoSubmit, and starts tells
\* that the handler called startCountdown, whose interval keeps c.
viewAfterHook(v, c, h, h2, starts) ==
  IF ~v.mounted THEN v
  ELSE
    LET v1 == IF h2.autoSubmitCalls > h.autoSubmitCalls THEN handleAutoSubmit(v, c) ELSE v
        v2 == IF starts THEN [v1 EXCEPT !.countdownClosure = c] ELSE v1
    IN  [v2 EXCEPT !.dirty = @ \/ (~v.unmounted /\ hookRendered(h2) # hookRendered(h))]

\* The view after a check of the QuizTimer that left it as tm2: the check
\* called onTimeUp if it computed 0.
viewAfterTimer(v, c, tm2) ==
  IF v.mounted /\ tm2.timeRemaining = 0 THEN handleTimeUp(v, c) ELSE v

\* The pending enterFullscreen call the browser answers next: the requests are
\* answered in the order they were made.
PendingCalls(v) == IF v.mounted THEN DOMAIN v.pendingClosures \cap {1} ELSE {0}
pendingClosure(v, i) == IF v.mounted THEN v.pendingClosures[i] ELSE NoClosure

\* --------------------------------------------------- useLockdown actions
RoomForViolation == doc.requested + Len(hook.violations) < MaxUserActions

\* The view calls enterFullscreen(): document.documentElement.requestFullscreen().
EnterFullscreen ==
  /\ RoomForViolation
  /\ doc' = [doc EXCEPT !.requested = @ + 1, !.pending = @ + 1]
  /\ view' = IF view.mounted
             THEN [view EXCEPT !.pendingClosures = Append(@, view.rendered)]
             ELSE view
  /\ UNCHANGED <<hook, timer>>

\* The browser grants a request: the document is fullscreen; a fullscreenchange
\* event is queued if that changed, and the promise is about to resolve.
BrowserGrantsFullscreen ==
  /\ doc.pending > 0
  /\ doc' = [doc EXCEPT !.pending = @ - 1,
                        !.granted = @ + 1,
                        !.fullscreenElement = TRUE,
                        !.fullscreenchange = IF doc.fullscreenElement THEN @ ELSE @ + 1]
  /\ \E i \in PendingCalls(view) :
       view' = IF view.mounted
               THEN [view EXCEPT !.pendingClosures = RemoveAt(@, i)]
               ELSE view
  /\ UNCHANGED <<hook, timer>>

EnterFullscreenResolved ==
  /\ doc.granted > 0
  /\ doc' = [doc EXCEPT !.granted = @ - 1]
  /\ hook' = enterFullscreenResolved(hook, now)
  /\ view' = viewAfterHook(view, view.rendered, hook, hook', FALSE)
  /\ UNCHANGED timer

\* The browser denies a request (or has no fullscreen): the promise rejects.
EnterFullscreenRejected ==
  /\ doc.pending > 0
  /\ doc' = [doc EXCEPT !.pending = @ - 1]
  /\ hook' = enterFullscreenRejected(hook, now)
  /\ \E i \in PendingCalls(view) :
       view' = viewAfterHook(IF view.mounted
                             THEN [view EXCEPT !.pendingClosures = RemoveAt(@, i)]
                             ELSE view,
                             pendingClosure(view, i), hook, hook', TRUE)
  /\ UNCHANGED timer

\* The user (or the browser) leaves fullscreen. The browser completes an
\* entry (its fullscreenchange event and the resolution of its promise run in
\* the same frame) before it processes an exit.
ExitFullscreen ==
  /\ doc.fullscreenElement
  /\ ~BrowserBusy
  /\ RoomForViolation
  /\ doc' = [doc EXCEPT !.fullscreenElement = FALSE, !.fullscreenchange = @ + 1]
  /\ UNCHANGED <<hook, timer, view>>

\* A queued fullscreenchange event is dispatched; the listener is removed by
\* the unmount cleanup.
FullscreenChangeEvent ==
  /\ doc.fullscreenchange > 0
  /\ doc' = [doc EXCEPT !.fullscreenchange = @ - 1]
  /\ hook' = IF hook.mounted
             THEN handleFullscreenChange(hook, doc.fullscreenElement, now)
             ELSE hook
  /\ view' = viewAfterHook(view, view.rendered, hook, hook',
                           /\ hook.mounted /\ ~doc.fullscreenElement /\ ~hook.graceRef
                           /\ hook'.violationCountRef <= MAX_ENVIRONMENTAL_VIOLATIONS)
  /\ UNCHANGED timer

VisibilityChangeEvent ==
  /\ hook.mounted /\ RoomForViolation
  /\ \E hidden \in BOOLEAN : hook' = handleVisibilityChange(hook, hidden, now)
  /\ view' = viewAfterHook(view, view.rendered, hook, hook', FALSE)
  /\ UNCHANGED <<doc, timer>>

BlurEvent ==
  /\ hook.mounted /\ RoomForViolation
  /\ hook' = handleBlur(hook, now)
  /\ view' = viewAfterHook(view, view.rendered, hook, hook', FALSE)
  /\ UNCHANGED <<doc, timer>>

PasteEvent ==
  /\ hook.mounted /\ RoomForViolation
  /\ hook' = handlePaste(hook, now)
  /\ view' = viewAfterHook(view, view.rendered, hook, hook', FALSE)
  /\ UNCHANGED <<doc, timer>>

CopyEvent ==
  /\ hook.mounted /\ RoomForViolation
  /\ hook' = handleCopy(hook, now)
  /\ view' = viewAfterHook(view, view.rendered, hook, hook', FALSE)
  /\ UNCHANGED <<doc, timer>>

CutEvent ==
  /\ hook.mounted /\ RoomForViolation
  /\ hook' = handleCut(hook, now)
  /\ view' = viewAfterHook(view, view.rendered, hook, hook', FALSE)
  /\ UNCHANGED <<doc, timer>>

DragStartEvent ==
  /\ hook.mounted
  /\ hook' = handleDragStart(hook)
  /\ view' = viewAfterHook(view, view.rendered, hook, hook', FALSE)
  /\ UNCHANGED <<doc, timer>>

DragEndEvent ==
  /\ hook.mounted
  /\ hook' = handleDragEnd(hook)
  /\ view' = viewAfterHook(view, view.rendered, hook, hook', FALSE)
  /\ UNCHANGED <<doc, timer>>

DropEvent ==
  /\ hook.mounted /\ RoomForViolation
  /\ hook' = handleDrop(hook, now)
  /\ view' = viewAfterHook(view, view.rendered, hook, hook', FALSE)
  /\ UNCHANGED <<doc, timer>>

KeydownEvent ==
  /\ hook.mounted /\ RoomForViolation
  /\ \E key \in Keys, modKey \in BOOLEAN, shiftKey \in BOOLEAN :
       hook' = handleKeydown(hook, key, modKey, shiftKey, now)
  /\ view' = viewAfterHook(view, view.rendered, hook, hook', FALSE)
  /\ UNCHANGED <<doc, timer>>

ContextMenuEvent ==
  /\ hook.mounted
  /\ hook' = handleContextMenu(hook)
  /\ view' = viewAfterHook(view, view.rendered, hook, hook', FALSE)
  /\ UNCHANGED <<doc, timer>>

\* The countdown's setInterval callback runs.
CountdownTick ==
  /\ hook.countdownIntervalRef
  /\ hook' = countdownTick(hook, now)
  /\ view' = viewAfterHook(view, view.countdownClosure, hook, hook', FALSE)
  /\ UNCHANGED <<doc, timer>>

\* setTimeout(() => { graceRef.current = false }, gracePeriodMs)
GraceTimeout ==
  /\ \E i \in DOMAIN hook.graceTimers :
       /\ now >= hook.graceTimers[i]
       /\ hook' = [hook EXCEPT !.graceRef = FALSE, !.graceTimers = RemoveAt(@, i)]
  /\ view' = viewAfterHook(view, view.rendered, hook, hook', FALSE)
  /\ UNCHANGED <<doc, timer>>

\* setTimeout(() => setWarning(null), WARNING_DISPLAY_MS)
WarningTimeout ==
  /\ \E i \in DOMAIN hook.warningTimers :
       /\ now >= hook.warningTimers[i]
       /\ hook' = [hook EXCEPT !.warning = NoWarning, !.warningTimers = RemoveAt(@, i)]
  /\ view' = viewAfterHook(view, view.rendered, hook, hook', FALSE)
  /\ UNCHANGED <<doc, timer>>

\* The component unmounts: the effects' cleanups run.
Unmount ==
  /\ hook.mounted
  /\ hook' = [clearCountdown(hook) EXCEPT !.mounted = FALSE]
  /\ UNCHANGED <<doc, timer, view>>

\* ------------------------------------------------------------- QuizTimer
FiveMinuteMessage == "5 minutes remaining!"
OneMinuteMessage == "1 minute remaining!"

\* A QuizTimer constructed `lead` ms before its deadline, its effect not yet run.
TimerNew(minutes, lead) ==
  [ mounted          |-> TRUE,
    startedAt        |-> now + lead - minutes * 60 * 1000,
    timeLimitMinutes |-> minutes,
    timeRemaining    |-> 0,
    interval         |-> FALSE,
    intervalDue      |-> now,
    warningTimers    |-> <<>>,
    constructedAt    |-> now,
    checkedAt        |-> now,
    effectRuns       |-> 0,
    onTimeUpCalls    |-> 0,
    onWarningCalls   |-> [m \in {FiveMinuteMessage, OneMinuteMessage} |-> 0],
    lastWarning      |-> "" ]

\* No QuizTimer is rendered.
TimerNone == [TimerNew(1, 60000) EXCEPT !.mounted = FALSE]

\* One more call of a callback; calls beyond MaxCallsCounted are not told apart.
Counted(n) == IF n < MaxCallsCounted THEN n + 1 ELSE n

endTime(tm) == tm.startedAt + tm.timeLimitMinutes * 60 * 1000

onWarning(tm, message, t) ==
  [tm EXCEPT !.onWarningCalls[message] = @ + 1,
             !.lastWarning = message,
             !.warningTimers = Append(@, t + WARNING_DISPLAY_DURATION_MS)]

\* Faulty variant: the Math.max(0, ...) clamp is missing.
updateTimerNoClamp(tm, t) ==
  LET remaining == Floor(endTime(tm) - t, 1000)
      tm1 == [tm EXCEPT !.timeRemaining = remaining, !.checkedAt = t]
      tm2 == IF remaining = FIVE_MINUTES_IN_SECONDS
             THEN onWarning(tm1, FiveMinuteMessage, t) ELSE tm1
      tm3 == IF remaining = ONE_MINUTE_IN_SECONDS
             THEN onWarning(tm2, OneMinuteMessage, t) ELSE tm2
  IN  IF remaining = 0 THEN [tm3 EXCEPT !.onTimeUpCalls = Counted(@)] ELSE tm3

updateTimer(tm, t) ==
  LET remaining == Max(0, Floor(endTime(tm) - t, 1000))
      tm1 == [tm EXCEPT !.timeRemaining = remaining, !.checkedAt = t]
      tm2 == IF remaining = FIVE_MINUTES_IN_SECONDS
             THEN onWarning(tm1, FiveMinuteMessage, t) ELSE tm1
      tm3 == IF remaining = ONE_MINUTE_IN_SECONDS
             THEN onWarning(tm2, OneMinuteMessage, t) ELSE tm2
  IN  IF remaining = 0 THEN [tm3 EXCEPT !.onTimeUpCalls = Counted(@)] ELSE tm3

\* The effect's body: a check at once, then the interval.
timerEffect(tm, t) ==
  [updateTimer(tm, t) EXCEPT !.interval = TRUE,
                             !.intervalDue = t + TIMER_INTERVAL_MS,
                             !.effectRuns = IF @ < MaxEffectRuns THEN @ + 1 ELSE @]

\* The timer's timestamps after d ms.
timerAfter(tm, d) ==
  [tm EXCEPT !.startedAt = @ - d,
             !.constructedAt = @ - d,
             !.checkedAt = @ - d,
             !.intervalDue = DueAfter(@, d),
             !.warningTimers = [i \in DOMAIN @ |-> DueAfter(@[i], d)]]

TimerAdvanceClock ==
  /\ \E d \in TimerClockSteps :
       /\ now - timer.constructedAt + d <= MaxSessionMs
       /\ timer' = timerAfter(timer, d)
  /\ UNCHANGED <<doc, hook, view>>

\* The effect runs: at mount, and again (after its cleanup cleared the interval)
\* when startedAt, timeLimitMinutes, onTimeUp or onWarning changed identity.
TimerEffect ==
  /\ timer.mounted
  /\ timer.effectRuns < MaxEffectRuns
  /\ timer' = [updateTimer(timer, now) EXCEPT !.interval = TRUE,
                                              !.intervalDue = now + TIMER_INTERVAL_MS,
                                              !.effectRuns = @ + 1]
  /\ view' = viewAfterTimer(view, view.rendered, timer')
  /\ UNCHANGED <<doc, hook>>

\* The setInterval callback runs.
TimerTick ==
  /\ timer.interval
  /\ now >= timer.intervalDue
  /\ timer' = [updateTimer(timer, now) EXCEPT !.intervalDue = now + TIMER_INTERVAL_MS]
  /\ view' = viewAfterTimer(view, view.rendered, timer')
  /\ UNCHANGED <<doc, hook>>

\* setTimeout(() => onWarning(''), WARNING_DISPLAY_DURATION_MS)
TimerWarningTimeout ==
  /\ \E i \in DOMAIN timer.warningTimers :
       /\ now >= timer.warningTimers[i]
       /\ timer' = [timer EXCEPT !.lastWarning = "", !.warningTimers = RemoveAt(@, i)]
  /\ UNCHANGED <<doc, hook, view>>

\* The component unmounts: the effect's cleanup clears the interval.
TimerUnmount ==
  /\ timer.mounted
  /\ timer.effectRuns > 0
  /\ timer' = [timer EXCEPT !.mounted = FALSE, !.interval = FALSE]
  /\ UNCHANGED <<doc, hook, view>>

InitTimer ==
  /\ doc = DocInit
  /\ hook = HookInit
  /\ view = ViewNone
  /\ \E minutes \in Durations, lead \in MountLeads :
       /\ lead <= minutes * 60 * 1000 + 500
       /\ timer = TimerNew(minutes, lead)

NextTimer ==
  \/ TimerAdvanceClock
  \/ TimerEffect
  \/ TimerTick
  \/ TimerWarningTimeout
  \/ TimerUnmount

SpecTimer == InitTimer /\ [][NextTimer]_vars

\* -------------------------------------------------- LockdownQuiz actions
\* The overlay that covers the page while the countdown is shown.
overlayShown == hook.fullscreenCountdown # Null /\ ~hook.isFullscreen

\* React commits a render of LockdownQuiz and runs its effects. handleSubmit is
\* re-created when loading or answers changed, and then sees the violations of
\* this render; otherwise the memoised one is kept. QuizTimer's effect re-runs
\* (onWarning is a new function in every render) unless the mobile gate
\* replaced the page, and the enter-fullscreen effect re-runs when
\* enterFullscreen, which depends on handleSubmit, was re-created.
Render ==
  /\ view.mounted /\ ~view.unmounted /\ view.dirty
  /\ LET changed == \/ ~view.committed
                    \/ view.rendered.loading # view.loading
                    \/ view.rendered.answers # view.answers
         c  == IF changed THEN Closure(view.loading, view.answers, hook.violations)
               ELSE view.rendered
         tm == IF hook.isMobileDevice THEN timer ELSE timerEffect(timer, now)
         v1 == [view EXCEPT !.dirty = FALSE, !.committed = TRUE, !.rendered = c]
         v2 == IF hook.isMobileDevice THEN v1 ELSE viewAfterTimer(v1, c, tm)
         v3 == IF changed THEN [v2 EXCEPT !.pendingClosures = Append(@, c)] ELSE v2
     IN  /\ timer' = tm
         /\ view' = IF ~view.committed /\ view.autosave
                    THEN [v3 EXCEPT !.answers = @ + 1, !.dirty = TRUE]
                    ELSE v3
         /\ doc' = IF changed THEN [doc EXCEPT !.requested = @ + 1, !.pending = @ + 1] ELSE doc
  /\ UNCHANGED hook

\* The student clicks Submit Quiz (disabled while the rendered loading is true).
SubmitClick ==
  /\ view.mounted /\ ~view.unmounted /\ view.committed
  /\ ~hook.isMobileDevice /\ ~overlayShown
  /\ ~view.rendered.loading
  /\ Len(view.requests) < MaxRequests
  /\ view' = handleSubmit(view, view.rendered, FALSE, FALSE)
  /\ UNCHANGED <<doc, hook, timer>>

\* The student edits an answer: setAnswers. The re-entry overlay covers the
\* page for the pointer only: the field that has the focus still takes keys.
AnswerChange ==
  /\ view.mounted /\ ~view.unmounted /\ view.committed
  /\ ~hook.isMobileDevice
  /\ view.answers < MaxAnswerChanges
  /\ view' = [view EXCEPT !.answers = @ + 1, !.dirty = TRUE]
  /\ UNCHANGED <<doc, hook, timer>>

\* submitQuiz resolves: navigate('/complete') unmounts the view, the hook and
\* the timer, whose cleanups run.
SubmitSucceeds ==
  /\ \E i \in view.inflight, status \in Statuses :
       view' = responseStored([view EXCEPT !.inflight = @ \ {i},
                                           !.unmounted = TRUE,
                                           !.completed = IF view.unmounted THEN @ ELSE i],
                              status, now)
  /\ hook' = IF hook.mounted THEN [clearCountdown(hook) EXCEPT !.mounted = FALSE] ELSE hook
  /\ timer' = [timer EXCEPT !.mounted = FALSE, !.interval = FALSE]
  /\ UNCHANGED doc

\* submitQuiz rejects: setError, setLoading(false).
SubmitFails ==
  /\ view.failures < MaxFailures
  /\ \E i \in view.inflight :
       view' = IF view.unmounted
               THEN [view EXCEPT !.inflight = @ \ {i}, !.failures = @ + 1]
               ELSE [view EXCEPT !.inflight = @ \ {i}, !.failures = @ + 1,
                                 !.error = TRUE, !.loading = FALSE, !.dirty = TRUE]
  /\ UNCHANGED <<doc, hook, timer>>

\* React flushes the render that a handler scheduled, and runs its effects,
\* before the next task runs (nothing is rendered once the view is replaced).
ViewFlushed == ~view.dirty \/ view.unmounted

\* The student acts, and time passes, on a settled page: the render is
\* flushed, the browser has answered the fullscreen requests and the timeouts
\* that are due have run.
ViewSettled ==
  /\ ViewFlushed
  /\ doc.pending = 0 /\ ~BrowserBusy
  /\ \A i \in DOMAIN hook.graceTimers : hook.graceTimers[i] > now
  /\ \A i \in DOMAIN hook.warningTimers : hook.warningTimers[i] > now

\* Time passes for the hook and the timer alike, until the view is replaced;
\* a scheduled render, the browser's answer to a fullscreen request and its
\* queued work come first.
ViewAdvanceClock ==
  /\ view.mounted /\ ~view.unmounted
  /\ ViewSettled
  /\ \E d \in ViewClockSteps :
       /\ now - timer.constructedAt + d <= MaxViewSessionMs
       /\ hook' = hookAfter(hook, d)
       /\ timer' = timerAfter(timer, d)
  /\ UNCHANGED <<doc, view>>

\* A session of one minute that mounts the view lead ms before its deadline,
\* on a device that detectMobileDevice classified one way or the other.
InitView ==
  /\ doc = DocInit
  /\ \E autosave \in BOOLEAN : view = [ViewInit EXCEPT !.autosave = autosave]
  /\ \E mobile \in BOOLEAN, lead \in ViewLeads :
       /\ hook = [HookInit EXCEPT !.isMobileDevice = mobile]
       /\ timer = IF mobile
                  THEN [TimerNew(1, lead) EXCEPT !.mounted = FALSE]
                  ELSE TimerNew(1, lead)

NextView ==
  \/ Render
  \/ ViewSettled /\ SubmitClick
  \/ ViewSettled /\ AnswerChange
  \/ ViewFlushed /\ SubmitSucceeds
  \/ ViewFlushed /\ SubmitFails
  \/ ViewAdvanceClock
  \/ ViewSettled /\ EnterFullscreen
  \/ ViewFlushed /\ BrowserGrantsFullscreen
  \/ ViewFlushed /\ EnterFullscreenResolved
  \/ ViewFlushed /\ EnterFullscreenRejected
  \/ ViewSettled /\ ExitFullscreen
  \/ ViewFlushed /\ FullscreenChangeEvent
  \/ ViewSettled /\ VisibilityChangeEvent
  \/ ViewSettled /\ PasteEvent
  \/ ViewFlushed /\ CountdownTick
  \/ ~view.dirty /\ ~view.unmounted /\ GraceTimeout
  \/ ~view.dirty /\ ~view.unmounted /\ WarningTimeout
  \/ ViewFlushed /\ TimerTick

SpecView == InitView /\ [][NextView]_vars

\* ------------------------------------------------ the Confirmation page
\* What the item 'proveit_submit_status' can hold: a status of a response,
\* another string (the comparison is case-sensitive), or the empty string.
StoredValues == Statuses \cup {"submitted", "LOCKED_OUT", ""}

\* A response of submitQuiz arrives in LockdownQuiz, which stores its status
\* and navigates to /complete.
ResponseArrives ==
  /\ view.completed < MaxRequests
  /\ \E status \in StoredValues :
       view' = responseStored([view EXCEPT !.completed = @ + 1], status, now)
  /\ UNCHANGED <<doc, hook, timer>>

\* The student opens /complete.
ConfirmationVisit ==
  /\ ~view.confirmation.mounted
  /\ view' = [view EXCEPT !.confirmation = confirmationMount(view.storage, now)]
  /\ UNCHANGED <<doc, hook, timer>>

\* The student leaves /complete: the effect's cleanup clears the timeout.
ConfirmationLeave ==
  /\ view.confirmation.mounted
  /\ view' = [view EXCEPT !.confirmation = NoConfirmation]
  /\ UNCHANGED <<doc, hook, timer>>

\* The timeout of the effect: clearSession() and removeItem.
ConfirmationClear ==
  /\ view.confirmation.mounted
  /\ view.confirmation.clearTimer # Null
  /\ now >= view.confirmation.clearTimer[1]
  /\ view' = [view EXCEPT !.storage = Null, !.confirmation.clearTimer = Null]
  /\ UNCHANGED <<doc, hook, timer>>

ConfirmationAdvanceClock ==
  /\ view.confirmation.clearTimer # Null
  /\ view.confirmation.clearTimer[1] > now
  /\ \E d \in ViewClockSteps :
       view' = [view EXCEPT !.confirmation.clearTimer = Some(DueAfter(@[1], d))]
  /\ UNCHANGED <<doc, hook, timer>>

NextConfirmation ==
  \/ ResponseArrives
  \/ ConfirmationVisit
  \/ ConfirmationLeave
  \/ ConfirmationClear
  \/ ConfirmationAdvanceClock

\* A fresh tab: nothing stored, no view rendered.
InitConfirmation ==
  /\ doc = DocInit
  /\ hook = HookInit
  /\ timer = TimerNone
  /\ view = ViewNone

SpecConfirmation == InitConfirmation /\ [][NextConfirmation]_vars

\* ------------------------------------------------------ the specifications
Init ==
  /\ doc = DocInit
  /\ hook = HookInit
  /\ view = ViewNone
  /\ timer = TimerNone

Next ==
  \/ AdvanceClock
  \/ EnterFullscreen
  \/ BrowserGrantsFullscreen
  \/ EnterFullscreenResolved
  \/ EnterFullscreenRejected
  \/ ExitFullscreen
  \/ FullscreenChangeEvent
  \/ VisibilityChangeEvent
  \/ BlurEvent
  \/ PasteEvent
  \/ CopyEvent
  \/ CutEvent
  \/ DragStartEvent
  \/ DragEndEvent
  \/ DropEvent
  \/ KeydownEvent
  \/ ContextMenuEvent
  \/ CountdownTick
  \/ GraceTimeout
  \/ WarningTimeout

Spec == Init /\ [][Next]_vars

\* The violation handler on its own: addViolation is a function of a string,
\* called here with the eight kinds the listeners pass and with a kind that
\* is none of them.
UnknownKind == "unknown_kind"

AddViolationCall ==
  /\ Len(hook.violations) < MaxUserActions
  /\ \E type \in ViolationTypes \cup {UnknownKind} : hook' = addViolation(hook, type, now)
  /\ UNCHANGED <<doc, timer, view>>

NextHandler == AddViolationCall

SpecHandler == Init /\ [][NextHandler]_vars

\* The timer callbacks and the browser's queued work run when they are due:
\* the event loop does not starve them, and time does not stop.
SpecLive ==
  /\ Init
  /\ [][Next]_vars
  /\ WF_vars(AdvanceClock)
  /\ WF_vars(CountdownTick)
  /\ WF_vars(EnterFullscreenResolved)
  /\ WF_vars(FullscreenChangeEvent)

\* ------------------------------------------------------------------ claims
Last(s) == s[Len(s)]

\* The step records a violation.
Recorded == Len(hook'.violations) = Len(hook.violations) + 1
RecordedType == Last(hook'.violations).type

\* The step leaves the re-entry countdown as it was.
CountdownUntouched ==
  /\ hook'.countdownIntervalRef = hook.countdownIntervalRef
  /\ hook'.countdownStartRef = hook.countdownStartRef
  /\ hook'.fullscreenCountdown = hook.fullscreenCountdown

\* After the step the latch is set and onAutoSubmit has been called once in
\* all, by this step unless the latch was set before.
ForcedByStep ==
  /\ hook'.autoSubmittedRef
  /\ hook'.autoSubmitCalls = 1
  /\ ~hook.autoSubmittedRef => hook'.autoSubmitCalls = hook.autoSubmitCalls + 1

\* C1: onAutoSubmit is invoked at most once per session: the latch
\* autoSubmittedRef is never reset, and every call of onAutoSubmit is made by a
\* step that sets the latch from false to true.
C1_AutoSubmitAtMostOnce ==
  [][ /\ hook.autoSubmittedRef => hook'.autoSubmittedRef
      /\ hook'.autoSubmitCalls <= 1
      /\ hook'.autoSubmitCalls # hook.autoSubmitCalls =>
           /\ ~hook.autoSubmittedRef /\ hook'.autoSubmittedRef
           /\ hook'.autoSubmitCalls = hook.autoSubmitCalls + 1 ]_vars

\* Two instant violations were recorded; the second found the latch set.
C1_Witness ==
  /\ Len(hook.violations) = 2
  /\ hook.violations[1].type \in INSTANT_SUBMIT_VIOLATIONS
  /\ hook.violations[2].type \in INSTANT_SUBMIT_VIOLATIONS
  /\ hook.autoSubmittedRef
  /\ hook.autoSubmitCalls = 1

\* C2: a step that records an instant-class violation sets the latch and
\* calls onAutoSubmit (once in the session), whatever the strike count, leaves
\* the strike count unchanged and starts no re-entry countdown.
C2_InstantForcesSubmission ==
  [][ (Recorded /\ RecordedType \in INSTANT_SUBMIT_VIOLATIONS) =>
        /\ ForcedByStep
        /\ hook'.warning = WarnSubmitted
        /\ hook'.violationCountRef = hook.violationCountRef
        /\ CountdownUntouched ]_vars

\* An instant violation recorded after one environmental strike forced the
\* submission.
C2_Witness ==
  /\ Len(hook.violations) = 2
  /\ hook.violations[1].type \in ENVIRONMENTAL_VIOLATIONS
  /\ hook.violations[2].type \in INSTANT_SUBMIT_VIOLATIONS
  /\ hook.violationCountRef = 1
  /\ hook.autoSubmittedRef
  /\ hook.autoSubmitCalls = 1

\* C3: a step that records the first environmental violation sets the warning
\* and forces nothing; a step that records the second one, of any kind, forces
\* the submission and starts no countdown.
C3_OneStrikeTolerance ==
  [][ (Recorded /\ RecordedType \in ENVIRONMENTAL_VIOLATIONS) =>
        /\ hook'.violationCountRef = hook.violationCountRef + 1
        /\ hook.violationCountRef = 0 =>
             /\ hook'.warning = WarnLeave
             /\ hook'.autoSubmittedRef = hook.autoSubmittedRef
             /\ hook'.autoSubmitCalls = hook.autoSubmitCalls
        /\ hook.violationCountRef = 1 =>
             /\ ForcedByStep
             /\ hook'.warning = WarnSubmitted
             /\ CountdownUntouched ]_vars

\* Two environmental violations of different kinds: the second forced the
\* submission.
C3_Witness ==
  /\ Len(hook.violations) = 2
  /\ hook.violations[1].type \in ENVIRONMENTAL_VIOLATIONS
  /\ hook.violations[2].type \in ENVIRONMENTAL_VIOLATIONS
  /\ hook.violations[1].type # hook.violations[2].type
  /\ hook.violationCountRef = 2
  /\ hook.autoSubmittedRef
  /\ hook.autoSubmitCalls = 1

\* A re-entry countdown is running and the document is not fullscreen.
CountdownRunning == hook.countdownIntervalRef /\ ~doc.fullscreenElement

\* The countdown has stopped with the submission forced once.
CountdownExpired ==
  ~hook.countdownIntervalRef /\ hook.autoSubmittedRef /\ hook.autoSubmitCalls = 1

SecondsLeft(elapsed) ==
  CHOOSE r \in 0..FULLSCREEN_REENTRY_SECONDS :
    /\ r * 1000 >= FULLSCREEN_REENTRY_SECONDS * 1000 - elapsed
    /\ r > 0 => (r - 1) * 1000 < FULLSCREEN_REENTRY_SECONDS * 1000 - elapsed

\* C5: a countdown tick forces the submission only if 10 s or more of wall
\* clock have passed since the countdown started, and it shows
\* max(0, ceil(10 - elapsed)) seconds (nothing once that is 0), whatever the
\* spacing of the ticks.
C5_CountdownNeverEarly ==
  [][ CountdownTick =>
        LET elapsed == now - hook.countdownStartRef
        IN  /\ hook'.autoSubmitCalls # hook.autoSubmitCalls =>
                 elapsed >= FULLSCREEN_REENTRY_SECONDS * 1000
            /\ ~hook'.countdownIntervalRef =>
                 elapsed >= FULLSCREEN_REENTRY_SECONDS * 1000
            /\ hook'.fullscreenCountdown =
                 IF SecondsLeft(elapsed) = 0 THEN Null ELSE Some(SecondsLeft(elapsed)) ]_vars

\* A tick 2.5 s after the start showed ceil(7.5) = 8.
C5_Witness ==
  /\ hook.countdownIntervalRef
  /\ now - hook.countdownStartRef = 2500
  /\ hook.fullscreenCountdown = Some(8)

\* The step is a re-entry into fullscreen seen by the hook: the promise of
\* enterFullscreen resolved, or a fullscreenchange event found the document
\* fullscreen.
Reentry ==
  \/ EnterFullscreenResolved
  \/ FullscreenChangeEvent /\ hook.mounted /\ doc.fullscreenElement

\* C6: a re-entry while the countdown is running cancels it, forces nothing
\* and leaves the strike counter as it is.
C6_ReentryCancelsCountdown ==
  [][ (Reentry /\ hook.countdownIntervalRef) =>
        /\ ~hook'.countdownIntervalRef
        /\ hook'.fullscreenCountdown = Null
        /\ hook'.autoSubmittedRef = hook.autoSubmittedRef
        /\ hook'.autoSubmitCalls = hook.autoSubmitCalls
        /\ hook'.violationCountRef = hook.violationCountRef ]_vars

\* After the one recorded fullscreen exit the hook is in fullscreen again,
\* the countdown cancelled and nothing submitted.
C6_Witness ==
  /\ hook.violations = <<[type |-> "fullscreen_exit", count |-> 1]>>
  /\ hook.violationCountRef = 1
  /\ hook.isFullscreen
  /\ doc.fullscreenElement
  /\ ~hook.countdownIntervalRef
  /\ ~hook.autoSubmittedRef

\* C7: after every check, timeRemaining is max(0, D*60 - (T - S)) in whole
\* seconds, for the start S, the limit D and the time T of the check; it is
\* never negative, and 0 at every check at or after the deadline.
C7_RemainingFromWallClock ==
  timer.effectRuns > 0 =>
    /\ timer.timeRemaining =
         Max(0, timer.timeLimitMinutes * 60 - Ceil(timer.checkedAt - timer.startedAt, 1000))
    /\ timer.timeRemaining >= 0
    /\ timer.checkedAt >= endTime(timer) => timer.timeRemaining = 0

\* A check made a second or more after the deadline.
C7_Witness ==
  /\ timer.effectRuns > 0
  /\ timer.checkedAt >= endTime(timer) + 1000
  /\ timer.timeRemaining = 0

\* C8: onTimeUp is invoked exactly once per session, at the first check that
\* computes 0, and by no later tick or re-run of the effect.
C8_TimeUpOnce ==
  /\ timer.onTimeUpCalls <= 1
  /\ (timer.effectRuns > 0 /\ timer.timeRemaining = 0) => timer.onTimeUpCalls = 1

\* C9: each of the two warnings is delivered at most once per session, and
\* the five-minute warning is not delivered by a tracker constructed with
\* less than five minutes left.
C9_WarningsAtMostOnce ==
  /\ timer.onWarningCalls[FiveMinuteMessage] <= 1
  /\ timer.onWarningCalls[OneMinuteMessage] <= 1
  /\ endTime(timer) - timer.constructedAt < FIVE_MINUTES_IN_SECONDS * 1000 =>
       timer.onWarningCalls[FiveMinuteMessage] = 0

\* C10: a check that takes timeRemaining from above a threshold to below it
\* leaves that threshold's warning delivered, once.
C10_NoThresholdSkipped ==
  [][ /\ (/\ timer.effectRuns > 0
          /\ timer.timeRemaining > FIVE_MINUTES_IN_SECONDS
          /\ timer'.timeRemaining < FIVE_MINUTES_IN_SECONDS) =>
            timer'.onWarningCalls[FiveMinuteMessage] = 1
      /\ (/\ timer.effectRuns > 0
          /\ timer.timeRemaining > ONE_MINUTE_IN_SECONDS
          /\ timer'.timeRemaining < ONE_MINUTE_IN_SECONDS) =>
            timer'.onWarningCalls[OneMinuteMessage] = 1 ]_vars

\* The step starts a submitQuiz request.
RequestStarted == Len(view'.requests) = Len(view.requests) + 1
StartedRequest == Last(view'.requests)

\* C11: a session produces one terminal signal: onTimeUp and onAutoSubmit
\* never both fire in the same session.
C11_OneTerminalSignal ==
  ~(hook.autoSubmitCalls >= 1 /\ timer.onTimeUpCalls >= 1)

\* C12: once a submitQuiz request has been started for a terminal signal
\* (forced = true), the view starts no further request.
C12_SubmitQuizOnce ==
  \A i \in DOMAIN view.requests :
    view.requests[i].forced => i = Len(view.requests)

\* C13: a request started by the forced-submission signal carries
\* (forced, lockdownForced) = (true, true), one started by time-up alone
\* (true, false), and every request started once the forced-submission signal
\* has fired carries lockdownForced = true.
C13_CausePreserved ==
  [][ RequestStarted =>
        /\ hook'.autoSubmitCalls > hook.autoSubmitCalls =>
             StartedRequest.forced /\ StartedRequest.lockdownForced
        /\ (StartedRequest.forced /\ ~hook'.autoSubmittedRef) =>
             ~StartedRequest.lockdownForced
        /\ hook'.autoSubmittedRef => StartedRequest.lockdownForced ]_vars

\* C14: the lockdown events that a forced submission passes to submitQuiz are
\* the violations recorded so far, the one that triggered it included.
C14_AuditTrailCurrent ==
  [][ (RequestStarted /\ hook'.autoSubmitCalls > hook.autoSubmitCalls) =>
        StartedRequest.lockdownEvents = hook'.violations ]_vars

\* C15: on a device classified as mobile the monitor requests no fullscreen,
\* starts no countdown, records no violation and forces no submission.
C15_EntryGate ==
  hook.isMobileDevice =>
    /\ doc.requested = 0
    /\ ~hook.countdownIntervalRef
    /\ hook.violations = <<>>
    /\ hook.autoSubmitCalls = 0

\* A listener receives an event of a kind that can be a violation: the
\* document left fullscreen, the page was hidden or lost the focus, or a
\* paste, copy, cut, drop or key event arrived.
ViolationEvent ==
  \/ ~doc.fullscreenElement /\ hook.mounted /\ FullscreenChangeEvent
  \/ VisibilityChangeEvent
  \/ BlurEvent
  \/ PasteEvent
  \/ CopyEvent
  \/ CutEvent
  \/ DropEvent
  \/ KeydownEvent

\* The step leaves what the monitor recorded and showed as it was: the trail,
\* the per-kind counts, the strike count, the latch, the countdown, the
\* warning, and no call of onAutoSubmit.
NoSideEffect ==
  /\ hook'.violations = hook.violations
  /\ hook'.eventCountsRef = hook.eventCountsRef
  /\ hook'.violationCountRef = hook.violationCountRef
  /\ hook'.autoSubmittedRef = hook.autoSubmittedRef
  /\ CountdownUntouched
  /\ hook'.warning = hook.warning
  /\ hook'.warningTimers = hook.warningTimers
  /\ hook'.autoSubmitCalls = hook.autoSubmitCalls

\* C16: while the grace period is active an event of any kind, environmental
\* or instant, is discarded: the trail, the per-kind counts, the strike
\* count, the latch, the countdown and the warning stay as they were and
\* onAutoSubmit is not called.
C16_GraceDiscardsEvents ==
  [][ (hook.graceRef /\ ViolationEvent) => NoSideEffect ]_vars

\* The document left fullscreen during the grace period and the listener
\* handled the event: isFullscreen is false, nothing was recorded and no
\* countdown runs.
C16_Witness ==
  /\ hook.graceRef
  /\ ~hook.isFullscreen
  /\ ~doc.fullscreenElement /\ doc.fullscreenchange = 0
  /\ hook.violations = <<>>
  /\ hook.violationCountRef = 0
  /\ ~hook.countdownIntervalRef
  /\ ~hook.autoSubmittedRef

\* C17: once the latch is set no event has a side effect: no violation is
\* appended, the counts and the strike count stay, no countdown starts, the
\* warning stays and onAutoSubmit is not called.
C17_LatchedNoSideEffect ==
  [][ (hook.autoSubmittedRef /\ ViolationEvent) => NoSideEffect ]_vars

\* The number of violations of the given kind in a trail.
Occurrences(trail, type) == Cardinality({i \in DOMAIN trail : trail[i].type = type})

\* The step appends one violation of the given kind to the trail, numbered
\* by its occurrence.
Appends(type) ==
  hook'.violations =
    Append(hook.violations,
           [type |-> type, count |-> Occurrences(hook.violations, type) + 1])

\* C18: between the forced submission and the teardown of the monitor an
\* event outside the grace period is still appended to the trail with its
\* occurrence index, and onAutoSubmit is not called a second time.
C18_RecordedAfterSubmission ==
  [][ (hook.autoSubmittedRef /\ hook.mounted /\ ~hook.graceRef) =>
        /\ PasteEvent => Appends("paste_attempt")
        /\ CopyEvent => Appends("copy_attempt")
        /\ CutEvent => Appends("cut_attempt")
        /\ BlurEvent =>
             \/ now - hook.lastFsExitRef < BLUR_SUPPRESS_AFTER_FS_EXIT_MS
             \/ Appends("window_blur")
        /\ (~doc.fullscreenElement /\ FullscreenChangeEvent) => Appends("fullscreen_exit")
        /\ Recorded => Last(hook'.violations).count
                          = Occurrences(hook'.violations, RecordedType)
        /\ hook'.autoSubmitCalls = hook.autoSubmitCalls ]_vars

\* A copy forced the submission and two later events, one environmental and
\* one of the same kind, were recorded without a second callback.
C18_Witness ==
  /\ hook.mounted
  /\ Len(hook.violations) = 3
  /\ hook.violations[1] = [type |-> "copy_attempt", count |-> 1]
  /\ hook.violations[2].type \in ENVIRONMENTAL_VIOLATIONS
  /\ hook.violations[3] = [type |-> "copy_attempt", count |-> 2]
  /\ hook.autoSubmittedRef
  /\ hook.autoSubmitCalls = 1

\* C19: an event of an instant kind forces the submission at once and in
\* every state of the monitor, the grace period after a fullscreen entry
\* included: in every state of a mounted monitor a paste, copy or cut is
\* recorded and leaves the latch set and onAutoSubmit called.
C19_InstantAlwaysForces ==
  hook.mounted =>
    \A h2 \in {handlePaste(hook, now), handleCopy(hook, now), handleCut(hook, now)} :
      /\ h2.autoSubmittedRef
      /\ h2.autoSubmitCalls = 1
      /\ Len(h2.violations) = Len(hook.violations) + 1

\* C20: a rejected fullscreen request raises nothing and leaves isFullscreen
\* false, starts the 10-second countdown at once, records no violation and
\* no strike; the tick that finds the countdown expired forces the
\* submission.
C20_RejectedRequestStartsCountdown ==
  [][ /\ EnterFullscreenRejected =>
           /\ ~hook'.isFullscreen
           /\ hook'.countdownIntervalRef
           /\ hook'.countdownStartRef = now
           /\ hook'.fullscreenCountdown = Some(FULLSCREEN_REENTRY_SECONDS)
           /\ hook'.violations = hook.violations
           /\ hook'.eventCountsRef = hook.eventCountsRef
           /\ hook'.violationCountRef = hook.violationCountRef
           /\ hook'.autoSubmitCalls = hook.autoSubmitCalls
      /\ (CountdownTick /\ now - hook.countdownStartRef >= FULLSCREEN_REENTRY_SECONDS * 1000) =>
           /\ hook'.autoSubmittedRef
           /\ ~hook'.countdownIntervalRef
           /\ ~hook.autoSubmittedRef => hook'.autoSubmitCalls = hook.autoSubmitCalls + 1 ]_vars

\* The first request was rejected, nothing was recorded, and the countdown
\* it started ran out and forced the submission.
C20_Witness ==
  /\ doc.requested = 1 /\ doc.pending = 0 /\ ~doc.fullscreenElement
  /\ ~hook.isFullscreen
  /\ hook.violations = <<>>
  /\ hook.violationCountRef = 0
  /\ hook.fullscreenCountdown = Null
  /\ hook.autoSubmittedRef
  /\ hook.autoSubmitCalls = 1

\* C21: the strike counter starts at 0 and never decreases; it changes only
\* in a step that records a violation of an environmental kind, by exactly 1,
\* and a step that records a violation of an instant kind leaves it as it
\* was. Entering fullscreen and the grace period do not reset it.
C21_StrikeCounterMonotone ==
  /\ hook.violationCountRef = 0
  /\ [][ /\ hook'.violationCountRef >= hook.violationCountRef
         /\ hook'.violationCountRef # hook.violationCountRef =>
              /\ Recorded
              /\ RecordedType \in ENVIRONMENTAL_VIOLATIONS
              /\ hook'.violationCountRef = hook.violationCountRef + 1
         /\ (Recorded /\ RecordedType \in ENVIRONMENTAL_VIOLATIONS) =>
              hook'.violationCountRef = hook.violationCountRef + 1
         /\ (Recorded /\ RecordedType \in INSTANT_SUBMIT_VIOLATIONS) =>
              hook'.violationCountRef = hook.violationCountRef ]_vars

\* After one strike the hook re-entered fullscreen and a new grace period
\* runs; the strike is still counted.
C21_Witness ==
  /\ hook.violations = <<[type |-> "fullscreen_exit", count |-> 1]>>
  /\ hook.isFullscreen
  /\ hook.graceRef
  /\ hook.violationCountRef = 1

\* C22: while the grace period is active no re-entry countdown runs and none
\* is shown.
C22_NoCountdownInGrace ==
  hook.graceRef => (~hook.countdownIntervalRef /\ hook.fullscreenCountdown = Null)

\* C23: every re-entry into fullscreen while the countdown runs, by the
\* resolution of the hook's own request or reported by a fullscreenchange
\* event alone, cancels the countdown, starts a new grace period and leaves
\* the strike counter as it was.
C23_ReentryStartsGrace ==
  [][ (Reentry /\ hook.countdownIntervalRef) =>
        /\ ~hook'.countdownIntervalRef
        /\ hook'.graceRef
        /\ Len(hook'.graceTimers) = Len(hook.graceTimers) + 1
        /\ Last(hook'.graceTimers) = now + gracePeriodMs
        /\ hook'.violationCountRef = hook.violationCountRef ]_vars

\* C24: once the submission was forced, or the hook unmounted, no timer of
\* the monitor remains scheduled: no re-entry countdown, no warning
\* auto-clear timeout and no grace timeout.
C24_TeardownCancelsTimers ==
  (hook.autoSubmittedRef \/ ~hook.mounted) =>
    /\ ~hook.countdownIntervalRef
    /\ hook.warningTimers = <<>>
    /\ hook.graceTimers = <<>>

\* The step starts a re-entry countdown.
CountdownStarted ==
  /\ hook'.countdownIntervalRef
  /\ hook'.countdownStartRef = now
  /\ hook'.fullscreenCountdown = Some(FULLSCREEN_REENTRY_SECONDS)

\* C25: among the steps that record a violation only a fullscreen_exit that
\* is the first strike starts a re-entry countdown: a tab_switch or a
\* window_blur leaves the countdown as it was, and so does a fullscreen_exit
\* that is a later strike, which forces the submission.
C25_OnlyFirstExitStartsCountdown ==
  [][ Recorded =>
        /\ (RecordedType = "fullscreen_exit"
              /\ hook'.violationCountRef <= MAX_ENVIRONMENTAL_VIOLATIONS) => CountdownStarted
        /\ (RecordedType = "fullscreen_exit"
              /\ hook'.violationCountRef > MAX_ENVIRONMENTAL_VIOLATIONS) =>
             (CountdownUntouched /\ ForcedByStep)
        /\ RecordedType # "fullscreen_exit" => CountdownUntouched ]_vars

\* A tab switch was the first strike and started no countdown; the
\* fullscreen exit that followed was the second strike and forced the
\* submission without one.
C25_Witness ==
  /\ Len(hook.violations) = 2
  /\ hook.violations[1].type = "tab_switch"
  /\ hook.violations[2].type = "fullscreen_exit"
  /\ hook.violationCountRef = 2
  /\ ~hook.countdownIntervalRef
  /\ hook.fullscreenCountdown = Null
  /\ hook.autoSubmittedRef
  /\ hook.autoSubmitCalls = 1

\* Every entry of the trail carries the number of entries of its kind up to
\* and including itself.
IndicesConsistent(trail) ==
  \A i \in DOMAIN trail :
    trail[i].count = Occurrences(SubSeq(trail, 1, i), trail[i].type)

\* C26: the trail is append-only with consistent occurrence indices: a step
\* leaves the trail as it was or appends one entry to it, and the count of
\* every entry is the number of entries of its kind at or before it.
C26_TrailAppendOnly ==
  [][ /\ \/ hook'.violations = hook.violations
         \/ /\ Recorded
            /\ SubSeq(hook'.violations, 1, Len(hook.violations)) = hook.violations
      /\ IndicesConsistent(hook'.violations) ]_vars

\* Three violations, two of them of one kind with another kind in between.
C26_Witness ==
  /\ Len(hook.violations) = 3
  /\ hook.violations[1] = [type |-> "tab_switch", count |-> 1]
  /\ hook.violations[2] = [type |-> "paste_attempt", count |-> 1]
  /\ hook.violations[3] = [type |-> "tab_switch", count |-> 2]

\* C27: a blur that arrives less than 500 ms after a recorded fullscreen exit
\* is suppressed: nothing is appended, the strike count stays and nothing is
\* forced, so the exit and the blur it causes count as one strike.
C27_BlurAfterExitSuppressed ==
  [][ (BlurEvent /\ now - hook.lastFsExitRef < BLUR_SUPPRESS_AFTER_FS_EXIT_MS) =>
        NoSideEffect ]_vars

\* Right after the one recorded fullscreen exit: one strike, nothing forced,
\* and the blur that the exit causes falls into the suppression window.
C27_Witness ==
  /\ hook.violations = <<[type |-> "fullscreen_exit", count |-> 1]>>
  /\ hook.violationCountRef = 1
  /\ now - hook.lastFsExitRef < BLUR_SUPPRESS_AFTER_FS_EXIT_MS
  /\ ~hook.graceRef
  /\ ~hook.autoSubmittedRef
  /\ handleBlur(hook, now) = hook

\* C28: a drop is a violation exactly when it is external. In every state of
\* a mounted monitor, a drop that follows a dragstart inside the page with no
\* dragend in between only clears the internal-drag flag, and every other
\* drop outside the grace period is recorded as drop_attempt and leaves the
\* submission forced.
C28_ExternalDropOnly ==
  hook.mounted =>
    LET h2 == handleDrop(hook, now)
    IN  /\ hook.internalDragRef => h2 = [hook EXCEPT !.internalDragRef = FALSE]
        /\ (~hook.internalDragRef /\ ~hook.graceRef) =>
             /\ h2.violations =
                  Append(hook.violations,
                         [type |-> "drop_attempt",
                          count |-> Occurrences(hook.violations, "drop_attempt") + 1])
             /\ h2.violationCountRef = hook.violationCountRef
             /\ h2.autoSubmittedRef
             /\ h2.autoSubmitCalls = 1

\* An external drop forced the submission; a drag then started inside the
\* page, so the next drop will be an internal one.
C28_Witness ==
  /\ hook.violations = <<[type |-> "drop_attempt", count |-> 1]>>
  /\ hook.autoSubmittedRef
  /\ hook.autoSubmitCalls = 1
  /\ hook.internalDragRef

\* The hook after a key event records one devtools_attempt more than h.
RecordsDevtools(h, h2) ==
  /\ h2.violations =
       Append(h.violations,
              [type |-> "devtools_attempt",
               count |-> Occurrences(h.violations, "devtools_attempt") + 1])
  /\ h2.autoSubmittedRef

\* C29: in every state of a mounted monitor the view-source shortcut
\* (Ctrl/Cmd+U), the print shortcut (Ctrl/Cmd+P) and the context menu leave
\* the monitor's state as it is (nothing appended, strike count, countdown
\* and latch unchanged, no callback), whereas F12 and Ctrl/Cmd+Shift+I/J/C/K
\* record devtools_attempt outside the grace period.
C29_SilentlyBlockedShortcuts ==
  hook.mounted =>
    /\ \A key \in {k \in Keys : ToLower(k) \in {"u", "p"}}, shiftKey \in BOOLEAN :
         handleKeydown(hook, key, TRUE, shiftKey, now) = hook
    /\ handleContextMenu(hook) = hook
    /\ ~hook.graceRef =>
         /\ \A modKey \in BOOLEAN, shiftKey \in BOOLEAN :
              RecordsDevtools(hook, handleKeydown(hook, "F12", modKey, shiftKey, now))
         /\ \A key \in {k \in Keys : ToUpper(k) \in DEVTOOLS_KEYS} :
              RecordsDevtools(hook, handleKeydown(hook, key, TRUE, TRUE, now))

\* A devtools shortcut was recorded and forced the submission; the silent
\* shortcuts still change nothing.
C29_Witness ==
  /\ hook.violations = <<[type |-> "devtools_attempt", count |-> 1]>>
  /\ hook.autoSubmittedRef
  /\ hook.autoSubmitCalls = 1
  /\ handleKeydown(hook, "u", TRUE, FALSE, now) = hook
  /\ handleKeydown(hook, "P", TRUE, FALSE, now) = hook

C31_SubmittedMessageTerminal ==
  [][ hook.warning = WarnSubmitted => hook'.warning = WarnSubmitted ]_vars

\* The step renders the Confirmation view for the first time.
ConfirmationMounts == ~view.confirmation.mounted /\ view'.confirmation.mounted

\* C32: the Confirmation view shows the locked-out message exactly when the
\* status it finds stored is 'locked_out': for every other stored value, and
\* when nothing is stored, it shows the completion message; what it shows
\* does not change while it is rendered.
C32_LockedOutIffStored ==
  [][ /\ ConfirmationMounts =>
           /\ heading(view'.confirmation) \in {LockedOutHeading, CompleteHeading}
           /\ heading(view'.confirmation) = LockedOutHeading
                <=> view'.storage = Some("locked_out")
      /\ (view.confirmation.mounted /\ view'.confirmation.mounted) =>
           heading(view'.confirmation) = heading(view.confirmation) ]_vars

\* The view shows the locked-out message for a stored 'locked_out'.
C32_Witness ==
  /\ view.confirmation.mounted
  /\ view.storage = Some("locked_out")
  /\ view.completed = 1
  /\ heading(view.confirmation) = LockedOutHeading

\* C33: no enforcement gap. When the monitor has asked for fullscreen, the
\* browser has answered and dispatched its events, the page is outside
\* fullscreen, the grace period is over and the submission was not forced,
\* then a re-entry countdown is running.
C33_NoEnforcementGap ==
  ( /\ hook.mounted
    /\ doc.requested > 0 /\ doc.pending = 0 /\ ~BrowserBusy
    /\ ~doc.fullscreenElement /\ ~hook.isFullscreen
    /\ ~hook.graceRef
    /\ ~hook.autoSubmittedRef )
  => hook.countdownIntervalRef

\* C34: a running countdown cannot be extended. While the document stays
\* outside fullscreen and the countdown runs, no step moves its start anchor
\* to a later time, whatever requests are made and fail.
C34_CountdownNotExtended ==
  [][ ( /\ hook.countdownIntervalRef /\ hook'.countdownIntervalRef
        /\ ~doc.fullscreenElement /\ ~doc'.fullscreenElement )
      => hook'.countdownStartRef <= hook.countdownStartRef ]_vars

\* C35: a successful entry at time t gives a full grace period: the grace
\* flag is not cleared before t + gracePeriodMs, that is, not while the
\* timeout armed by a later entry is still ahead.
C35_FullGracePeriod ==
  [][ (hook.graceRef /\ ~hook'.graceRef) =>
        \A i \in DOMAIN hook'.graceTimers : hook'.graceTimers[i] <= now ]_vars

\* C36: whenever a countdown is shown (fullscreenCountdown is not null)
\* isFullscreen is false, so the re-entry overlay, shown when
\* fullscreenCountdown is not null and isFullscreen is false, is shown in
\* exactly the states in which a countdown is shown.
C36_CountdownImpliesNotFullscreen ==
  /\ hook.fullscreenCountdown # Null => ~hook.isFullscreen
  /\ overlayShown <=> hook.fullscreenCountdown # Null

\* A successful entry was followed by a rejected request: the countdown is
\* shown and isFullscreen is false although the document is fullscreen.
C36_Witness ==
  /\ doc.fullscreenElement
  /\ hook.fullscreenCountdown = Some(FULLSCREEN_REENTRY_SECONDS)
  /\ hook.countdownIntervalRef
  /\ ~hook.isFullscreen
  /\ overlayShown

\* C37: onTimeUp is never called before the deadline: a check that calls it
\* is made at or after startedAt + timeLimitMinutes * 60 s, in milliseconds.
C37_TimeUpNotEarly ==
  [][ timer'.onTimeUpCalls > timer.onTimeUpCalls =>
        now >= timer'.startedAt + timer'.timeLimitMinutes * 60 * 1000 ]_vars

\* C38: while the submission has not been forced the strike counter is at
\* most the strike limit: a counter above the limit implies the latch.
C38_StrikesWithinLimit ==
  hook.violationCountRef > MAX_ENVIRONMENTAL_VIOLATIONS => hook.autoSubmittedRef

\* A blur and a tab switch: the second strike took the counter to 2 and set
\* the latch.
C38_Witness ==
  /\ Len(hook.violations) = 2
  /\ hook.violations[1].type = "window_blur"
  /\ hook.violations[2].type = "tab_switch"
  /\ hook.violationCountRef = 2
  /\ hook.autoSubmittedRef

\* The countdown's interval callback finds the countdown run out and forces
\* the submission.
CountdownExpiryStep ==
  /\ hook.countdownIntervalRef /\ ~hook'.countdownIntervalRef
  /\ hook'.autoSubmitCalls = hook.autoSubmitCalls + 1
  /\ hook' = countdownTick(hook, now)

\* C39: the submission forced at the expiry of the countdown sends the answers
\* the view holds at the expiry, not those captured when the countdown started.
C39_ForcedSubmissionCurrentAnswers ==
  [][ (CountdownExpiryStep /\ RequestStarted) =>
        StartedRequest.answers = view.answers ]_vars

====
